---- MODULE Spec2Model ----
(***************************************************************************)
(* Dual-source resolution and failover subsystem of the consumer referral  *)
(* API: the data-source router (switch-rds / switch-lake handlers), the    *)
(* Trino -> Redis initial sync, the Kafka consumer's lifecycle, and the     *)
(* Redis/RDS race fetch.                                                    *)
(*                                                                          *)
(* SpecRouter: the lifespan startup, the two switch handlers run by the    *)
(*   event loop one at a time, and the Kafka consumer thread beside them.  *)
(* SpecFetch:  one batch of race fetches (fetch_multiple_users_parallel,   *)
(*   or a single fetch_user_parallel) over the executor and the semaphore. *)
(***************************************************************************)
EXTENDS Integers, Sequences, FiniteSets, TLC

\* ------------------------------------------------------------------ bounds
MaxId == 1
MaxRequests == 2
MaxThreads == 2
MaxRows == 1
MaxExtraErrors == 1
MaxFetchId == 2
MaxBatch == 2
MaxWorkers == 2
MaxTicks == 5
MaxWarnings == 2
TimeStep == 10

\* ------------------------------------------------------- program constants
max_consecutive_errors == 3
max_no_message_iterations == 3
warning_window == 30
warning_threshold == 10

\* the environment raises no further error once the counter is this high
ErrCap == max_consecutive_errors + MaxExtraErrors

Ids == 1..MaxId

\* time.time() when the service starts: later than any warning window
StartTime == warning_window + TimeStep
\* field values of a stored record (consumer_token/platform/device_id as one)
Vals == 1..2

LAKE == "lake"
RDS == "rds"

VARIABLES
    \* DataSourceService
    current_source, switch_timestamp,
    \* successive readings of datetime.utcnow()
    clock,
    \* the request handler the event loop is running, the requests waiting
    \* for the loop, the number of requests received, the id of the request
    \* answered last
    handler, pending, arrived, finished,
    \* Redis: user id -> stored fields (0: no entry)
    cache,
    \* KafkaService
    consumer, running, consecutive_errors, failover_triggered,
    threads, consumer_thread,
    \* RDS table: the ids it holds
    rds_rows,
    \* ParallelFetchService: the ids of the request, the race of each
    \* position, the executor's work queue, the aggregated response
    batch, races, executor_queue, response,
    \* KafkaCoordinatorWarningHandler, and the reading of time.time()
    warning_count, last_warning_time, now,
    \* history of the anomaly window: the time of the first warning counted
    \* in the current window, the count before the last warning, whether the
    \* threshold has been reached
    window_start, prev_count, escalated

routerVars == <<current_source, switch_timestamp, clock, handler, pending,
                arrived, finished, consumer, running, consecutive_errors,
                failover_triggered, threads, consumer_thread>>
fetchVars == <<rds_rows, batch, races, executor_queue, response>>
vars == <<current_source, switch_timestamp, clock, handler, pending,
          arrived, finished, cache, consumer, running, consecutive_errors,
          failover_triggered, threads, consumer_thread,
          rds_rows, batch, races, executor_queue, response,
          warning_count, last_warning_time, now, window_start, prev_count,
          escalated>>
warnVars == <<warning_count, last_warning_time, now, window_start, prev_count,
              escalated>>

dsVars == <<current_source, switch_timestamp, clock>>
reqVars == <<pending, arrived, finished>>
kafkaVars == <<consumer, running, consecutive_errors, failover_triggered,
               threads, consumer_thread>>

\* ---------------------------------------------------------------- helpers
Min(a, b) == IF a < b THEN a ELSE b

\* ------------------------------------------------------- DataSourceService
\* (mutant) the timestamp is recorded even when the source is already active
ds_switch_always_stamps(target, src, ts, t) ==
    IF src = target
    THEN [status |-> "already_active", source |-> src, ts |-> t]
    ELSE [status |-> "switched", source |-> target, ts |-> t]

\* switch_to_rds / switch_to_lake on (source, timestamp) at utcnow() = t:
\* the response's status and the new fields.
ds_switch(target, src, ts, t) ==
    IF src = target
    THEN [status |-> "already_active", source |-> src, ts |-> ts]
    ELSE [status |-> "switched", source |-> target, ts |-> t]

ds_switch_to_rds(src, ts, t) == ds_switch(RDS, src, ts, t)

ds_switch_to_lake(src, ts, t) == ds_switch(LAKE, src, ts, t)

\* ------------------------------------------------------------ RedisService
\* (mutant) every id is reported as existing
user_exists_always(c, id, redis_ok) == TRUE

\* user_exists: SISMEMBER, False when the call raises
user_exists(c, id, redis_ok) == redis_ok /\ c[id] # 0

\* (mutant) a failed write wipes the entry
add_user_data_failure_clears(c, id, val, redis_ok) ==
    IF redis_ok THEN [c EXCEPT ![id] = val] ELSE [c EXCEPT ![id] = 0]

\* add_user_data: SADD + HSET in one pipeline; on an exception nothing is
\* written and False is returned
add_user_data(c, id, val, redis_ok) ==
    IF redis_ok THEN [c EXCEPT ![id] = val] ELSE c

\* ------------------------------------------------------------ TrinoService
Rows == [user_id : Ids, val : Vals]

\* what a scan can return: every sequence of at most MaxRows rows
Datasets == UNION {[1..n -> Rows] : n \in 0..MaxRows}

\* fetch_all_users: the rows, or [] when the query raises
fetch_all_users(rows, scan_ok) == IF scan_ok THEN rows ELSE <<>>

\* ------------------------------------------------------------ KafkaService
\* a consumer thread: its position in consume_messages, its locals, the kind
\* of the message the for loop holds, and the record it is about to write
NoThread == [pc |-> "none", messages_received |-> FALSE,
             no_message_count |-> 0, message |-> "none", wid |-> 0, wval |-> 0]

Tids == 1..MaxThreads

is_alive(t) == t \in Tids /\ threads[t].pc \notin {"none", "dead"}

FreeTids == {t \in Tids : ~is_alive(t)}

\* the slot of a newly created thread: the lowest one not alive
NewTid == CHOOSE t \in FreeTids : \A u \in FreeTids : t <= u

\* (mutant) the running flag is not looked at
kafka_health_check_ignores_running ==
    /\ consumer
    /\ consecutive_errors < max_consecutive_errors
    /\ ~failover_triggered

\* health_check()
kafka_health_check ==
    /\ consumer
    /\ running
    /\ consecutive_errors < max_consecutive_errors
    /\ ~failover_triggered

\* ------------------------------------------------------ handler bookkeeping
Idle == [op |-> "none", pc |-> "idle", id |-> 0, during |-> 0,
         during_op |-> "none",
         users |-> <<>>, i |-> 0, scan_failed |-> FALSE, status |-> "none",
         pre |-> [source |-> LAKE, ts |-> 0, running |-> FALSE,
                  alive |-> FALSE]]

AtPc(op, pc) == handler.op = op /\ handler.pc = pc

SwitchInProgress == handler.op \in {"rds", "lake"} /\ handler.pc # "done"

\* past initial_sync: its local variables are gone
SyncReturned(pc) == [handler EXCEPT !.pc = pc, !.users = <<>>, !.i = 0]

\* the handler ends with `status`
Finish(status) ==
    [handler EXCEPT !.pc = "done", !.status = status, !.users = <<>>, !.i = 0]

\* ------------------------------------------------------------ request intake
\* A switch request reaches the server. The event loop runs one handler at a
\* time (the handlers are coroutines without an await), so the request waits
\* while another handler runs; `during` and `during_op` record the switch
\* that was in progress when the request came.
Arrive(op) ==
    /\ handler.op # "startup"
    /\ arrived < MaxRequests
    /\ arrived' = arrived + 1
    /\ pending' = pending \cup
                   {[id |-> arrived + 1, op |-> op,
                     during |-> IF SwitchInProgress THEN handler.id ELSE 0,
                     during_op |-> IF SwitchInProgress THEN handler.op
                                   ELSE "none"]}
    /\ UNCHANGED <<current_source, switch_timestamp, clock, handler, finished,
                   cache, consumer, running, consecutive_errors,
                   failover_triggered, threads, consumer_thread>>
    /\ UNCHANGED fetchVars
    /\ UNCHANGED warnVars

\* The event loop starts the handler of a waiting request.
Begin ==
    /\ handler.op = "none"
    /\ \E r \in pending :
         /\ handler' = [Idle EXCEPT
                          !.op = r.op,
                          !.pc = IF r.op = "rds" THEN "stop" ELSE "trino_probe",
                          !.id = r.id,
                          !.during = r.during,
                          !.during_op = r.during_op,
                          !.pre = [source |-> current_source,
                                   ts |-> switch_timestamp,
                                   running |-> running,
                                   alive |-> is_alive(consumer_thread)]]
         /\ pending' = pending \ {r}
    /\ UNCHANGED <<current_source, switch_timestamp, clock, arrived, finished,
                   cache, consumer, running, consecutive_errors,
                   failover_triggered, threads, consumer_thread>>
    /\ UNCHANGED fetchVars
    /\ UNCHANGED warnVars

\* The response is sent and the loop is free again.
Respond ==
    /\ handler.pc = "done"
    /\ finished' = handler.id
    /\ handler' = Idle
    /\ UNCHANGED <<current_source, switch_timestamp, clock, pending, arrived,
                   cache, consumer, running, consecutive_errors,
                   failover_triggered, threads, consumer_thread>>
    /\ UNCHANGED fetchVars
    /\ UNCHANGED warnVars

\* ------------------------------------------------- KafkaService lifecycle
\* (mutant) every connect installs a fresh warning handler
setup_warning_handler_fresh(exists, count, last) == [count |-> 0, last |-> 0]

\* _setup_warning_handler: a handler (count 0, last warning time 0) is
\* created only when the service has none yet; the service has one from its
\* first successful connect on
setup_warning_handler(exists, count, last) ==
    IF ~exists THEN [count |-> 0, last |-> 0]
    ELSE [count |-> count, last |-> last]

\* connect(): a new KafkaConsumer; the error counter and the failover flag
\* are reset, the warning handler is set up. When the constructor raises
\* nothing is assigned.
kafka_connect(ok) ==
    IF ok
    THEN /\ consumer' = TRUE
         /\ consecutive_errors' = 0
         /\ failover_triggered' = FALSE
         /\ LET w == setup_warning_handler(consumer, warning_count,
                                           last_warning_time)
            IN /\ warning_count' = w.count
               /\ last_warning_time' = w.last
    ELSE UNCHANGED <<consumer, consecutive_errors, failover_triggered,
                     warning_count, last_warning_time>>

\* start_consuming(): only when the running flag is down
start_consuming ==
    IF ~running
    THEN /\ FreeTids # {}
         /\ running' = TRUE
         /\ consecutive_errors' = 0
         /\ failover_triggered' = FALSE
         /\ threads' = [threads EXCEPT ![NewTid] = [NoThread EXCEPT !.pc = "top"]]
         /\ consumer_thread' = NewTid
    ELSE UNCHANGED <<running, consecutive_errors, failover_triggered, threads,
                     consumer_thread>>

\* (mutant) the flag is left as it is
stop_consuming_flag_kept == UNCHANGED running

\* stop_consuming(), up to the join: the flag goes down
stop_consuming_flag ==
    IF running THEN running' = FALSE ELSE UNCHANGED running

\* --------------------------------------------------------- switch_to_rds
\* kafka_service.stop_consuming()
switch_to_rds_stop ==
    /\ AtPc("rds", "stop")
    /\ stop_consuming_flag
    /\ handler' = [handler EXCEPT !.pc =
                     IF running /\ is_alive(consumer_thread)
                     THEN "join" ELSE "rds_probe"]
    /\ UNCHANGED <<dsVars, reqVars, cache, consumer, consecutive_errors,
                   failover_triggered, threads, consumer_thread>>
    /\ UNCHANGED fetchVars
    /\ UNCHANGED warnVars

\* consumer_thread.join(timeout=5) returns: the thread has ended, or the
\* five seconds are over and the thread is still alive (logged only)
switch_to_rds_join ==
    /\ AtPc("rds", "join")
    /\ handler' = [handler EXCEPT !.pc = "rds_probe"]
    /\ UNCHANGED <<dsVars, reqVars, cache, kafkaVars>>
    /\ UNCHANGED fetchVars
    /\ UNCHANGED warnVars

\* if not rds_service.health_check(): rds_service.connect()
\* then datasource_service.switch_to_rds()
rds_probe_connect(healthy, ok) ==
    IF healthy \/ ok
    THEN LET r == ds_switch_to_rds(current_source, switch_timestamp, clock + 1)
         IN /\ current_source' = r.source
            /\ switch_timestamp' = r.ts
            /\ clock' = IF r.status = "switched" THEN clock + 1 ELSE clock
            /\ handler' = Finish(r.status)
    ELSE /\ handler' = Finish("error_500")
         /\ UNCHANGED dsVars

switch_to_rds_connect ==
    /\ AtPc("rds", "rds_probe")
    /\ \E healthy \in BOOLEAN, ok \in BOOLEAN : rds_probe_connect(healthy, ok)
    /\ UNCHANGED <<reqVars, cache, kafkaVars>>
    /\ UNCHANGED fetchVars
    /\ UNCHANGED warnVars

\* ------------------------------------------- lifespan startup / switch_to_lake
\* lifespan: redis_service.connect(); trino_service.connect()
startup_connect ==
    /\ AtPc("startup", "boot")
    /\ \E ok \in BOOLEAN :
         handler' = [handler EXCEPT !.pc = IF ok THEN "sync_scan" ELSE "crashed"]
    /\ UNCHANGED <<dsVars, reqVars, cache, kafkaVars>>
    /\ UNCHANGED fetchVars
    /\ UNCHANGED warnVars

\* switch_to_lake: if not trino_service.health_check(): trino_service.connect()
switch_to_lake_trino ==
    /\ AtPc("lake", "trino_probe")
    /\ \E healthy \in BOOLEAN, ok \in BOOLEAN :
         handler' = IF healthy \/ ok
                    THEN [handler EXCEPT !.pc = "sync_scan"]
                    ELSE Finish("error_500")
    /\ UNCHANGED <<dsVars, reqVars, cache, kafkaVars>>
    /\ UNCHANGED fetchVars
    /\ UNCHANGED warnVars

\* ------------------------------------------------- SyncService.initial_sync
\* users = trino_service.fetch_all_users(); if not users: return
sync_scan(rows, scan_ok) ==
    LET users == fetch_all_users(rows, scan_ok)
    IN handler' = [handler EXCEPT
                     !.users = users,
                     !.i = 1,
                     !.scan_failed = ~scan_ok,
                     !.pc = IF users = <<>> THEN "kafka_probe" ELSE "sync_row"]

initial_sync_scan ==
    /\ handler.pc = "sync_scan"
    /\ \E rows \in Datasets, scan_ok \in BOOLEAN : sync_scan(rows, scan_ok)
    /\ UNCHANGED <<dsVars, reqVars, cache, kafkaVars>>
    /\ UNCHANGED fetchVars
    /\ UNCHANGED warnVars

\* for user in users: if not redis_service.user_exists(user_id): ...
sync_row(redis_ok) ==
    IF handler.i > Len(handler.users)
    THEN handler' = [handler EXCEPT !.pc = "kafka_probe"]
    ELSE IF user_exists(cache, handler.users[handler.i].user_id, redis_ok)
         THEN handler' = [handler EXCEPT !.i = handler.i + 1]
         ELSE handler' = [handler EXCEPT !.pc = "sync_write"]

initial_sync_row ==
    /\ handler.pc = "sync_row"
    /\ \E redis_ok \in BOOLEAN : sync_row(redis_ok)
    /\ UNCHANGED <<dsVars, reqVars, cache, kafkaVars>>
    /\ UNCHANGED fetchVars
    /\ UNCHANGED warnVars

\* ... redis_service.add_user_data(...); added_count += 1
\* (the value add_user_data returns is not looked at)
sync_write(redis_ok) ==
    /\ cache' = add_user_data(cache, handler.users[handler.i].user_id,
                              handler.users[handler.i].val, redis_ok)
    /\ handler' = [handler EXCEPT !.pc = "sync_row", !.i = handler.i + 1]

initial_sync_write ==
    /\ handler.pc = "sync_write"
    /\ \E redis_ok \in BOOLEAN : sync_write(redis_ok)
    /\ UNCHANGED <<dsVars, reqVars, kafkaVars>>
    /\ UNCHANGED fetchVars
    /\ UNCHANGED warnVars

\* ------------------------------------------------ Kafka connect and start
\* lifespan: kafka_service.connect()
\* switch_to_lake: if not kafka_service.health_check(): kafka_service.connect()
kafka_probe_connect(ok) ==
    IF handler.op = "lake" /\ kafka_health_check
    THEN /\ handler' = SyncReturned("kafka_start")
         /\ UNCHANGED <<consumer, consecutive_errors, failover_triggered,
                        warning_count, last_warning_time>>
    ELSE /\ kafka_connect(ok)
         /\ handler' = IF ok THEN SyncReturned("kafka_start")
                       ELSE IF handler.op = "startup"
                            THEN [handler EXCEPT !.pc = "crashed"]
                            ELSE Finish("error_500")

handler_kafka_connect ==
    /\ handler.pc = "kafka_probe"
    /\ \E ok \in BOOLEAN : kafka_probe_connect(ok)
    /\ UNCHANGED <<dsVars, reqVars, cache, running, threads, consumer_thread>>
    /\ UNCHANGED fetchVars
    /\ UNCHANGED <<now, window_start, prev_count, escalated>>

\* kafka_service.start_consuming()
handler_kafka_start ==
    /\ handler.pc = "kafka_start"
    /\ start_consuming
    /\ handler' = IF handler.op = "startup" THEN Finish("started")
                  ELSE [handler EXCEPT !.pc = "ds_switch"]
    /\ UNCHANGED <<dsVars, reqVars, cache, consumer>>
    /\ UNCHANGED fetchVars
    /\ UNCHANGED warnVars

\* datasource_service.switch_to_lake()
switch_to_lake_switch ==
    /\ AtPc("lake", "ds_switch")
    /\ LET r == ds_switch_to_lake(current_source, switch_timestamp, clock + 1)
       IN /\ current_source' = r.source
          /\ switch_timestamp' = r.ts
          /\ clock' = IF r.status = "switched" THEN clock + 1 ELSE clock
          /\ handler' = Finish(r.status)
    /\ UNCHANGED <<reqVars, cache, kafkaVars>>
    /\ UNCHANGED fetchVars
    /\ UNCHANGED warnVars

\* ------------------------------------------- KafkaService.consume_messages
handlerVars == <<dsVars, reqVars, handler>>

\* (mutant) the idle threshold escalates also without earlier errors
after_loop_escalates_always(th, errors) ==
    IF th.messages_received
    THEN [th |-> [th EXCEPT !.pc = "check", !.message = "none"],
          errors |-> errors]
    ELSE LET n == Min(th.no_message_count + 1, max_no_message_iterations)
         IN [th |-> [th EXCEPT !.pc = "check", !.message = "none",
                               !.no_message_count = n],
             errors |-> IF n >= max_no_message_iterations
                        THEN errors + 1 ELSE errors]

\* the bookkeeping after the for loop over the consumer has ended:
\* an iteration without a message counts, and escalates when errors exist
after_loop(th, errors) ==
    IF th.messages_received
    THEN [th |-> [th EXCEPT !.pc = "check", !.message = "none"],
          errors |-> errors]
    ELSE LET n == Min(th.no_message_count + 1, max_no_message_iterations)
         IN [th |-> [th EXCEPT !.pc = "check", !.message = "none",
                               !.no_message_count = n],
             errors |-> IF n >= max_no_message_iterations /\ errors > 0
                        THEN errors + 1 ELSE errors]

\* while self.running:
consume_top(t) ==
    /\ threads[t].pc = "top"
    /\ threads' = [threads EXCEPT ![t] =
                     IF running
                     THEN [@ EXCEPT !.pc = "inner", !.messages_received = FALSE]
                     ELSE [NoThread EXCEPT !.pc = "dead"]]
    /\ UNCHANGED <<handlerVars, cache, consumer, running, consecutive_errors,
                   failover_triggered, consumer_thread>>
    /\ UNCHANGED fetchVars
    /\ UNCHANGED warnVars

\* (mutant) a tombstone is counted as a processing error
process_message_tombstone_fails(t, kind, id, val, redis_ok) ==
    CASE kind = "tombstone" ->
           /\ threads' = [threads EXCEPT ![t].messages_received = TRUE,
                                         ![t].no_message_count = 0,
                                         ![t].message = kind]
           /\ consecutive_errors' = consecutive_errors + 1
      [] kind = "bad" ->
           /\ threads' = [threads EXCEPT ![t].messages_received = TRUE,
                                         ![t].no_message_count = 0,
                                         ![t].message = kind]
           /\ consecutive_errors' = consecutive_errors + 1
      [] kind = "norecord" ->
           /\ threads' = [threads EXCEPT ![t].messages_received = TRUE,
                                         ![t].no_message_count = 0,
                                         ![t].message = kind]
           /\ consecutive_errors' = 0
      [] OTHER ->
           IF user_exists(cache, id, redis_ok)
           THEN /\ threads' = [threads EXCEPT ![t].messages_received = TRUE,
                                              ![t].no_message_count = 0,
                                              ![t].message = kind]
                /\ consecutive_errors' = 0
           ELSE /\ threads' = [threads EXCEPT ![t].pc = "write",
                                              ![t].message = kind,
                                              ![t].wid = id, ![t].wval = val]
                /\ UNCHANGED consecutive_errors

\* (mutant) an exception in process_message is counted twice
process_message_error_twice(t, kind, id, val, redis_ok) ==
    CASE kind = "tombstone" ->
           /\ threads' = [threads EXCEPT ![t].messages_received = TRUE,
                                         ![t].no_message_count = 0,
                                         ![t].message = kind]
           /\ UNCHANGED consecutive_errors
      [] kind = "bad" ->
           /\ threads' = [threads EXCEPT ![t].messages_received = TRUE,
                                         ![t].no_message_count = 0,
                                         ![t].message = kind]
           /\ consecutive_errors' = consecutive_errors + 2
      [] kind = "norecord" ->
           /\ threads' = [threads EXCEPT ![t].messages_received = TRUE,
                                         ![t].no_message_count = 0,
                                         ![t].message = kind]
           /\ consecutive_errors' = 0
      [] OTHER ->
           IF user_exists(cache, id, redis_ok)
           THEN /\ threads' = [threads EXCEPT ![t].messages_received = TRUE,
                                              ![t].no_message_count = 0,
                                              ![t].message = kind]
                /\ consecutive_errors' = 0
           ELSE /\ threads' = [threads EXCEPT ![t].pc = "write",
                                              ![t].message = kind,
                                              ![t].wid = id, ![t].wval = val]
                /\ UNCHANGED consecutive_errors

\* process_message on a message of the given kind; a record that is not in
\* Redis yet is written in a second step (consume_write)
process_message(t, kind, id, val, redis_ok) ==
    CASE kind = "tombstone" ->
           /\ threads' = [threads EXCEPT ![t].messages_received = TRUE,
                                         ![t].no_message_count = 0,
                                         ![t].message = kind]
           /\ UNCHANGED consecutive_errors
      [] kind = "bad" ->
           /\ threads' = [threads EXCEPT ![t].messages_received = TRUE,
                                         ![t].no_message_count = 0,
                                         ![t].message = kind]
           /\ consecutive_errors' = consecutive_errors + 1
      [] kind = "norecord" ->
           /\ threads' = [threads EXCEPT ![t].messages_received = TRUE,
                                         ![t].no_message_count = 0,
                                         ![t].message = kind]
           /\ consecutive_errors' = 0
      [] OTHER ->
           IF user_exists(cache, id, redis_ok)
           THEN /\ threads' = [threads EXCEPT ![t].messages_received = TRUE,
                                              ![t].no_message_count = 0,
                                              ![t].message = kind]
                /\ consecutive_errors' = 0
           ELSE /\ threads' = [threads EXCEPT ![t].pc = "write",
                                              ![t].message = kind,
                                              ![t].wid = id, ![t].wval = val]
                /\ UNCHANGED consecutive_errors

MessageKinds == {"tombstone", "bad", "norecord", "record"}

\* for message in self.consumer: the next message is delivered
consume_message(t) ==
    /\ threads[t].pc = "inner"
    /\ IF ~running
       THEN \* if not self.running: break
            LET a == after_loop(threads[t], consecutive_errors)
            IN /\ threads' = [threads EXCEPT ![t] = a.th]
               /\ consecutive_errors' = a.errors
       ELSE \E kind \in MessageKinds, id \in Ids, val \in Vals,
               redis_ok \in BOOLEAN :
              /\ kind = "bad" => consecutive_errors < ErrCap
              /\ process_message(t, kind, id, val, redis_ok)
    /\ UNCHANGED <<handlerVars, cache, consumer, running, failover_triggered,
                   consumer_thread>>
    /\ UNCHANGED fetchVars
    /\ UNCHANGED warnVars

\* redis_service.add_user_data(...); self.consecutive_errors = 0
consume_write(t) ==
    /\ threads[t].pc = "write"
    /\ \E redis_ok \in BOOLEAN :
         cache' = add_user_data(cache, threads[t].wid, threads[t].wval, redis_ok)
    /\ threads' = [threads EXCEPT ![t].pc = "inner", ![t].wid = 0, ![t].wval = 0,
                                  ![t].messages_received = TRUE,
                                  ![t].no_message_count = 0]
    /\ consecutive_errors' = 0
    /\ UNCHANGED <<handlerVars, consumer, running, failover_triggered,
                   consumer_thread>>
    /\ UNCHANGED fetchVars
    /\ UNCHANGED warnVars

\* no message within consumer_timeout_ms: the for loop ends
consume_timeout(t) ==
    /\ threads[t].pc = "inner"
    /\ LET a == after_loop(threads[t], consecutive_errors)
       IN /\ threads' = [threads EXCEPT ![t] = a.th]
          /\ consecutive_errors' = a.errors
    /\ UNCHANGED <<handlerVars, cache, consumer, running, failover_triggered,
                   consumer_thread>>
    /\ UNCHANGED fetchVars
    /\ UNCHANGED warnVars

\* the consumer raises (KafkaError or any other exception)
consume_error(t) ==
    /\ threads[t].pc = "inner"
    /\ consecutive_errors < ErrCap
    /\ threads' = [threads EXCEPT ![t].pc = "check", ![t].message = "none"]
    /\ consecutive_errors' = consecutive_errors + 1
    /\ UNCHANGED <<handlerVars, cache, consumer, running, failover_triggered,
                   consumer_thread>>
    /\ UNCHANGED fetchVars
    /\ UNCHANGED warnVars

\* (mutant) the commented-out self._trigger_failover() is live and makes
\* RDS the source when the thread gives up
consume_check_triggers_failover(t) ==
    /\ threads[t].pc = "check"
    /\ threads' = [threads EXCEPT ![t] =
                     IF consecutive_errors >= max_consecutive_errors
                     THEN [NoThread EXCEPT !.pc = "dead"]
                     ELSE [@ EXCEPT !.pc = "top"]]
    /\ current_source' = IF consecutive_errors >= max_consecutive_errors
                         THEN RDS ELSE current_source
    /\ UNCHANGED <<switch_timestamp, clock, reqVars, handler, cache, consumer,
                   running, consecutive_errors, failover_triggered,
                   consumer_thread>>
    /\ UNCHANGED fetchVars
    /\ UNCHANGED warnVars

\* if self.consecutive_errors >= self.max_consecutive_errors: break
\* else sleep and loop
consume_check(t) ==
    /\ threads[t].pc = "check"
    /\ threads' = [threads EXCEPT ![t] =
                     IF consecutive_errors >= max_consecutive_errors
                     THEN [NoThread EXCEPT !.pc = "dead"]
                     ELSE [@ EXCEPT !.pc = "top"]]
    /\ UNCHANGED <<handlerVars, cache, consumer, running, consecutive_errors,
                   failover_triggered, consumer_thread>>
    /\ UNCHANGED fetchVars
    /\ UNCHANGED warnVars

\* ---------------------------------------------------------- specification
NoResponse == [sent |-> FALSE, users |-> <<>>, not_found |-> <<>>]

InitRouter ==
    /\ current_source = LAKE
    /\ switch_timestamp = 0
    /\ clock = 0
    /\ handler = [Idle EXCEPT !.op = "startup", !.pc = "boot"]
    /\ pending = {}
    /\ arrived = 0
    /\ finished = 0
    /\ cache \in [Ids -> {0} \cup Vals]
    /\ consumer = FALSE
    /\ running = FALSE
    /\ consecutive_errors = 0
    /\ failover_triggered = FALSE
    /\ threads = [t \in Tids |-> NoThread]
    /\ consumer_thread = 0
    /\ rds_rows = {}
    /\ batch = <<>>
    /\ races = <<>>
    /\ executor_queue = <<>>
    /\ response = NoResponse
    /\ warning_count = 0
    /\ last_warning_time = 0
    /\ now = StartTime
    /\ window_start = 0
    /\ prev_count = 0
    /\ escalated = FALSE

NextRouter ==
    \/ \E op \in {"rds", "lake"} : Arrive(op)
    \/ Begin
    \/ Respond
    \/ switch_to_rds_stop
    \/ switch_to_rds_join
    \/ switch_to_rds_connect
    \/ startup_connect
    \/ switch_to_lake_trino
    \/ initial_sync_scan
    \/ initial_sync_row
    \/ initial_sync_write
    \/ handler_kafka_connect
    \/ handler_kafka_start
    \/ switch_to_lake_switch
    \/ \E t \in Tids : consume_top(t)
    \/ \E t \in Tids : consume_message(t)
    \/ \E t \in Tids : consume_write(t)
    \/ \E t \in Tids : consume_timeout(t)
    \/ \E t \in Tids : consume_error(t)
    \/ \E t \in Tids : consume_check(t)

SpecRouter == InitRouter /\ [][NextRouter]_vars

\* ===================================================== ParallelFetchService
FetchIds == 1..MaxFetchId

Stores == {"redis", "rds"}

Other(st) == IF st = "redis" THEN "rds" ELSE "redis"

\* a sub-lookup task: not created ("none"), its call queued in the executor,
\* running on a worker thread, done, cancelled, or cancelled while its call
\* still runs ("zombie")
NoTask == [st |-> "none", res |-> "none"]

\* the race of one position; `held` is what the two stores hold for the id
\* when the request is made
NewRace(id, c, rows) ==
    [id |-> id, pc |-> "new", redis |-> NoTask, rds |-> NoTask,
     pending |-> "none", result |-> "none", timed_out |-> FALSE,
     held |-> [redis |-> c[id] # 0, rds |-> id \in rows]]

Positions == 1..Len(races)

\* races inside `async with self.semaphore`
InFlight == {r \in Positions : races[r].pc \in {"wait_first", "fallback"}}

\* the sub-lookup calls that occupy an executor thread
Busy == {e \in Positions \X Stores :
            races[e[1]][e[2]].st \in {"running", "zombie"}}

\* redis_service.get_user_data: the hash, or None when it is empty or the
\* call raises
get_user_data(c, id, redis_ok) ==
    IF ~redis_ok THEN "error" ELSE IF c[id] # 0 THEN "present" ELSE "absent"

\* rds_service.get_user_by_id: the row, None, or an exception
get_user_by_id(rows, id, rds_ok) ==
    IF ~rds_ok THEN "error" ELSE IF id \in rows THEN "present" ELSE "absent"

\* (mutant) every record is tagged as coming from Redis
Tagged_always_redis(st, res) == IF res = "present" THEN "redis" ELSE "none"

\* fetch_user_from_redis / fetch_user_from_rds: the record tagged with its
\* source, or None (also after an exception)
Tagged(st, res) == IF res = "present" THEN st ELSE "none"

\* (mutant) cancel() leaves the task as it is
Cancelled_never(task) == task

\* task.cancel(): a queued call is dropped, a running one goes on unheard
Cancelled(task) ==
    IF task.st = "queued" THEN [st |-> "cancelled", res |-> "none"]
    ELSE IF task.st = "running" THEN [st |-> "zombie", res |-> "none"]
    ELSE task

\* the executor's queue without the calls of race r that were cancelled
Unqueue(q, r, rs) ==
    SelectSeq(q, LAMBDA e : ~(e[1] = r /\ rs[r][e[2]].st = "cancelled"))

\* (mutant) the semaphore lets every race in
semaphore_free_always == TRUE

\* asyncio.Semaphore(max_workers): a race may enter
semaphore_free == Cardinality(InFlight) < MaxWorkers

\* async with self.semaphore: both tasks are created and submit their call,
\* Redis first
fetch_enter(r) ==
    /\ races[r].pc = "new"
    /\ semaphore_free
    /\ races' = [races EXCEPT ![r].pc = "wait_first",
                              ![r].redis = [st |-> "queued", res |-> "none"],
                              ![r].rds = [st |-> "queued", res |-> "none"]]
    /\ executor_queue' = executor_queue \o <<<<r, "redis">>, <<r, "rds">>>>
    /\ UNCHANGED <<routerVars, cache, rds_rows, batch, response>>
    /\ UNCHANGED warnVars

\* a free executor thread takes the oldest queued call
executor_start ==
    /\ executor_queue # <<>>
    /\ Cardinality(Busy) < MaxWorkers
    /\ LET r == Head(executor_queue)[1]
           st == Head(executor_queue)[2]
       IN races' = [races EXCEPT ![r][st].st = "running"]
    /\ executor_queue' = Tail(executor_queue)
    /\ UNCHANGED <<routerVars, cache, rds_rows, batch, response>>
    /\ UNCHANGED warnVars

\* (mutant) the call of a cancelled task never gives its thread back
lookup_result_zombie_stays(r, st, ok) ==
    IF races[r][st].st = "zombie"
    THEN [st |-> "zombie", res |-> "none"]
    ELSE [st |-> "done",
          res |-> IF st = "redis" THEN get_user_data(cache, races[r].id, ok)
                  ELSE get_user_by_id(rds_rows, races[r].id, ok)]

\* the call returns or raises on its thread; the result of a cancelled task
\* is dropped
lookup_result(r, st, ok) ==
    IF races[r][st].st = "zombie"
    THEN [st |-> "cancelled", res |-> "none"]
    ELSE [st |-> "done",
          res |-> IF st = "redis" THEN get_user_data(cache, races[r].id, ok)
                  ELSE get_user_by_id(rds_rows, races[r].id, ok)]

executor_finish(r, st) ==
    /\ races[r][st].st \in {"running", "zombie"}
    /\ \E ok \in BOOLEAN :
         races' = [races EXCEPT ![r][st] = lookup_result(r, st, ok)]
    /\ UNCHANGED <<routerVars, cache, rds_rows, batch, executor_queue, response>>
    /\ UNCHANGED warnVars

DoneOf(race) == {st \in Stores : race[st].st = "done"}

\* asyncio.wait(FIRST_COMPLETED) has returned `done`, a set that is iterated
\* with `first` before the other task: the first truthy result wins and the
\* pending task is cancelled; without one the pending task is awaited
first_completed(race, first) ==
    LET done == DoneOf(race)
        order == SelectSeq(<<first, Other(first)>>, LAMBDA st : st \in done)
        hits == SelectSeq(order, LAMBDA st : race[st].res = "present")
    IN IF hits # <<>>
       THEN [race EXCEPT !.pc = "returned",
                         !.result = Tagged(hits[1], race[hits[1]].res),
                         !.redis = Cancelled(race.redis),
                         !.rds = Cancelled(race.rds)]
       ELSE IF done = Stores
            THEN [race EXCEPT !.pc = "returned"]
            ELSE [race EXCEPT !.pc = "fallback",
                              !.pending = CHOOSE st \in Stores : st \notin done]

fetch_first_completed(r) ==
    /\ races[r].pc = "wait_first"
    /\ DoneOf(races[r]) # {}
    /\ \E first \in Stores :
         races' = [races EXCEPT ![r] = first_completed(races[r], first)]
    /\ executor_queue' = Unqueue(executor_queue, r, races')
    /\ UNCHANGED <<routerVars, cache, rds_rows, batch, response>>
    /\ UNCHANGED warnVars

\* (mutant) the result of the awaited pending task is not used
fallback_result_dropped(race) == [race EXCEPT !.pc = "returned"]

\* asyncio.wait_for(task, timeout=2.0) returns the pending task's result
fallback_result(race) ==
    [race EXCEPT !.pc = "returned",
                 !.result = Tagged(race.pending, race[race.pending].res)]

fetch_fallback_result(r) ==
    /\ races[r].pc = "fallback"
    /\ races[r][races[r].pending].st = "done"
    /\ races' = [races EXCEPT ![r] = fallback_result(races[r])]
    /\ UNCHANGED <<routerVars, cache, rds_rows, batch, executor_queue, response>>
    /\ UNCHANGED warnVars

\* (mutant) the timeout is taken for a record of the pending store
fallback_timeout_found(race) ==
    [race EXCEPT !.pc = "returned", !.timed_out = TRUE,
                 !.result = race.pending,
                 ![race.pending] = Cancelled(race[race.pending])]

\* asyncio.TimeoutError after two seconds: wait_for has cancelled the task
fallback_timeout(race) ==
    [race EXCEPT !.pc = "returned", !.timed_out = TRUE,
                 ![race.pending] = Cancelled(race[race.pending])]

fetch_fallback_timeout(r) ==
    /\ races[r].pc = "fallback"
    /\ races[r][races[r].pending].st # "done"
    /\ races' = [races EXCEPT ![r] = fallback_timeout(races[r])]
    /\ executor_queue' = Unqueue(executor_queue, r, races')
    /\ UNCHANGED <<routerVars, cache, rds_rows, batch, response>>
    /\ UNCHANGED warnVars

\* fetch_multiple_users_parallel after gather: zip(user_ids, results) into
\* the found records and the ids not found (None, or an exception)
Hit(results, k) == results[k] \notin {"none", "exception"}

aggregate(ids, results) ==
    LET positions == [k \in 1..Len(ids) |-> k]
        hit == SelectSeq(positions, LAMBDA k : Hit(results, k))
        miss == SelectSeq(positions, LAMBDA k : ~Hit(results, k))
    IN [sent |-> TRUE,
        users |-> [j \in 1..Len(hit) |->
                     [user_id |-> ids[hit[j]], source |-> results[hit[j]]]],
        not_found |-> [j \in 1..Len(miss) |-> ids[miss[j]]]]

fetch_aggregate ==
    /\ ~response.sent
    /\ Len(races) = Len(batch)
    /\ \A r \in Positions : races[r].pc = "returned"
    /\ response' = aggregate(batch, [r \in Positions |-> races[r].result])
    /\ UNCHANGED <<routerVars, cache, rds_rows, batch, races, executor_queue>>
    /\ UNCHANGED warnVars

\* the Kafka consumer or the initial sync adds a user to Redis meanwhile
redis_insert(id) ==
    /\ ~user_exists(cache, id, TRUE)
    /\ cache' = add_user_data(cache, id, 1, TRUE)
    /\ UNCHANGED <<routerVars, fetchVars>>
    /\ UNCHANGED warnVars

Batches == UNION {[1..n -> FetchIds] : n \in 1..MaxBatch}

\* a get-user-data request in RDS mode, the consumer stopped
InitFetch ==
    /\ current_source = RDS
    /\ switch_timestamp = 1
    /\ clock = 1
    /\ handler = Idle
    /\ pending = {}
    /\ arrived = 0
    /\ finished = 0
    /\ consumer = TRUE
    /\ running = FALSE
    /\ consecutive_errors = 0
    /\ failover_triggered = FALSE
    /\ threads = [t \in Tids |-> NoThread]
    /\ consumer_thread = 0
    /\ cache \in [FetchIds -> {0, 1}]
    /\ rds_rows \in SUBSET FetchIds
    /\ batch \in Batches
    /\ races = [k \in 1..Len(batch) |-> NewRace(batch[k], cache, rds_rows)]
    /\ executor_queue = <<>>
    /\ response = NoResponse
    /\ warning_count = 0
    /\ last_warning_time = 0
    /\ now = StartTime
    /\ window_start = 0
    /\ prev_count = 0
    /\ escalated = FALSE

NextFetch ==
    \/ \E r \in Positions : fetch_enter(r)
    \/ executor_start
    \/ \E r \in Positions, st \in Stores : executor_finish(r, st)
    \/ \E r \in Positions : fetch_first_completed(r)
    \/ \E r \in Positions : fetch_fallback_result(r)
    \/ \E r \in Positions : fetch_fallback_timeout(r)
    \/ fetch_aggregate
    \/ \E id \in FetchIds : redis_insert(id)

SpecFetch == InitFetch /\ [][NextFetch]_vars

\* a batch of one more id than the semaphore has slots
InitCap ==
    /\ current_source = RDS
    /\ switch_timestamp = 1
    /\ clock = 1
    /\ handler = Idle
    /\ pending = {}
    /\ arrived = 0
    /\ finished = 0
    /\ consumer = TRUE
    /\ running = FALSE
    /\ consecutive_errors = 0
    /\ failover_triggered = FALSE
    /\ threads = [t \in Tids |-> NoThread]
    /\ consumer_thread = 0
    /\ cache \in {[id \in FetchIds |-> 0],
                  [id \in FetchIds |-> IF id = 1 THEN 1 ELSE 0]}
    /\ rds_rows \in {{}, {1}}
    /\ batch = [k \in 1..(MaxWorkers + 1) |-> 1]
    /\ races = [k \in 1..Len(batch) |-> NewRace(batch[k], cache, rds_rows)]
    /\ executor_queue = <<>>
    /\ response = NoResponse
    /\ warning_count = 0
    /\ last_warning_time = 0
    /\ now = StartTime
    /\ window_start = 0
    /\ prev_count = 0
    /\ escalated = FALSE

NextCap ==
    \/ \E r \in Positions : fetch_enter(r)
    \/ executor_start
    \/ \E r \in Positions, st \in Stores : executor_finish(r, st)
    \/ \E r \in Positions : fetch_first_completed(r)
    \/ \E r \in Positions : fetch_fallback_result(r)
    \/ \E r \in Positions : fetch_fallback_timeout(r)
    \/ fetch_aggregate

SpecCap == InitCap /\ [][NextCap]_vars

\* every store call ends and the event loop runs what is ready
SpecCapFair == SpecCap /\ WF_vars(NextCap)

\* the steps that do not depend on RDS answering: the event loop, the
\* executor's dispatch, the Redis calls and the timer of wait_for
CapProgress ==
    \/ \E r \in Positions : fetch_enter(r)
    \/ executor_start
    \/ \E r \in Positions : executor_finish(r, "redis")
    \/ \E r \in Positions : fetch_first_completed(r)
    \/ \E r \in Positions : fetch_fallback_result(r)
    \/ \E r \in Positions : fetch_fallback_timeout(r)
    \/ fetch_aggregate

\* as SpecCapFair, but an RDS call may block for ever (pymysql without a
\* read timeout)
SpecCapHung == SpecCap /\ WF_vars(CapProgress)

\* ======================================================= GET /user/{user_ids}
\* (mutant) the route never takes the Lake branch
is_lake_active_never(src) == FALSE

\* DataSourceService.is_lake_active
is_lake_active(src) == src = LAKE

\* a token of the path that int() rejects (not numeric, or empty)
Malformed == 0

\* the comma-separated path parameter, split: valid ids and malformed tokens
Requests == UNION {[1..n -> FetchIds \cup {Malformed}] : n \in 1..MaxBatch}

\* get_user_data's parse loop accepts the whole list
AllNumeric(tokens) == \A k \in 1..Len(tokens) : tokens[k] # Malformed

\* the RDS lookups that have reached rds_service.get_user_by_id
RdsQueried == {r \in Positions : races[r].rds.st \in {"running", "zombie", "done"}}

\* the ids the Lake branch has looked up so far
LakeDone == Len(response.users) + Len(response.not_found)

\* get_user_data parses the whole list first (400 on a malformed token),
\* then reads the active source once: the Lake branch loops over the ids
\* itself, the RDS branch creates one race per id
route_dispatch ==
    /\ AtPc("get_user_data", "dispatch")
    /\ IF ~AllNumeric(batch)
       THEN /\ handler' = Finish("error_400")
            /\ UNCHANGED races
       ELSE IF is_lake_active(current_source)
       THEN /\ handler' = [handler EXCEPT !.pc = "lake_loop"]
            /\ UNCHANGED races
       ELSE /\ handler' = [handler EXCEPT !.pc = "rds_fetch"]
            /\ races' = [k \in 1..Len(batch) |->
                           NewRace(batch[k], cache, rds_rows)]
    /\ UNCHANGED <<dsVars, reqVars, cache, kafkaVars, rds_rows, batch,
                   executor_queue, response>>
    /\ UNCHANGED warnVars

\* LAKE mode: user_data = redis_service.get_user_data(user_id), tagged
\* 'redis' when found
lake_lookup(id, redis_ok) ==
    IF get_user_data(cache, id, redis_ok) = "present"
    THEN [response EXCEPT !.users =
              Append(@, [user_id |-> id, source |-> "redis"])]
    ELSE [response EXCEPT !.not_found = Append(@, id)]

route_lake_lookup ==
    /\ AtPc("get_user_data", "lake_loop")
    /\ LakeDone < Len(batch)
    /\ \E redis_ok \in BOOLEAN :
         response' = lake_lookup(batch[LakeDone + 1], redis_ok)
    /\ UNCHANGED <<dsVars, reqVars, handler, cache, kafkaVars, rds_rows, batch,
                   races, executor_queue>>
    /\ UNCHANGED warnVars

\* return UserDataResponse(users=found_users, ..., not_found=not_found)
route_lake_return ==
    /\ AtPc("get_user_data", "lake_loop")
    /\ LakeDone = Len(batch)
    /\ response' = [response EXCEPT !.sent = TRUE]
    /\ handler' = Finish("ok")
    /\ UNCHANGED <<dsVars, reqVars, cache, kafkaVars, rds_rows, batch, races,
                   executor_queue>>
    /\ UNCHANGED warnVars

\* a get-user-data request in either mode
InitRoute ==
    /\ current_source \in {LAKE, RDS}
    /\ switch_timestamp = 1
    /\ clock = 1
    /\ handler = [Idle EXCEPT !.op = "get_user_data", !.pc = "dispatch"]
    /\ pending = {}
    /\ arrived = 0
    /\ finished = 0
    /\ consumer = TRUE
    /\ running = FALSE
    /\ consecutive_errors = 0
    /\ failover_triggered = FALSE
    /\ threads = [t \in Tids |-> NoThread]
    /\ consumer_thread = 0
    /\ cache \in [FetchIds -> {0, 1}]
    /\ rds_rows \in SUBSET FetchIds
    /\ batch \in Requests
    /\ races = <<>>
    /\ executor_queue = <<>>
    /\ response = NoResponse
    /\ warning_count = 0
    /\ last_warning_time = 0
    /\ now = StartTime
    /\ window_start = 0
    /\ prev_count = 0
    /\ escalated = FALSE

NextRoute ==
    \/ route_dispatch
    \/ route_lake_lookup
    \/ route_lake_return
    \/ \E r \in Positions : fetch_enter(r)
    \/ executor_start
    \/ \E r \in Positions, st \in Stores : executor_finish(r, st)
    \/ \E r \in Positions : fetch_first_completed(r)
    \/ \E r \in Positions : fetch_fallback_result(r)
    \/ \E r \in Positions : fetch_fallback_timeout(r)
    \/ fetch_aggregate
    \/ \E id \in FetchIds : redis_insert(id)

SpecRoute == InitRoute /\ [][NextRoute]_vars

\* ================================================ GET /check-user/{user_ids}
\* the results collected so far; each result also records what Redis held
\* and whether the call answered when user_exists was asked
check_result(uid, c, redis_ok) ==
    [user_id |-> uid, exists |-> user_exists(c, uid, redis_ok),
     held |-> c[uid] # 0, answered |-> redis_ok]

\* one turn of `for uid in user_id_list`: the token is converted and looked
\* up at once; a malformed token raises 400 with the earlier lookups done
check_user_step ==
    /\ AtPc("check_user", "check_loop")
    /\ Len(response.users) < Len(batch)
    /\ LET uid == batch[Len(response.users) + 1]
       IN IF uid = Malformed
          THEN /\ handler' = Finish("error_400")
               /\ UNCHANGED response
          ELSE /\ \E redis_ok \in BOOLEAN :
                    response' = [response EXCEPT !.users =
                                   Append(@, check_result(uid, cache, redis_ok))]
               /\ UNCHANGED handler
    /\ UNCHANGED <<dsVars, reqVars, cache, kafkaVars, rds_rows, batch, races,
                   executor_queue>>
    /\ UNCHANGED warnVars

\* return UserCheckResponse(results=results)
check_user_return ==
    /\ AtPc("check_user", "check_loop")
    /\ Len(response.users) = Len(batch)
    /\ response' = [response EXCEPT !.sent = TRUE]
    /\ handler' = Finish("ok")
    /\ UNCHANGED <<dsVars, reqVars, cache, kafkaVars, rds_rows, batch, races,
                   executor_queue>>
    /\ UNCHANGED warnVars

\* a check-user request, in either mode, while users are added to Redis
InitCheck ==
    /\ current_source \in {LAKE, RDS}
    /\ switch_timestamp = 1
    /\ clock = 1
    /\ handler = [Idle EXCEPT !.op = "check_user", !.pc = "check_loop"]
    /\ pending = {}
    /\ arrived = 0
    /\ finished = 0
    /\ consumer = TRUE
    /\ running = FALSE
    /\ consecutive_errors = 0
    /\ failover_triggered = FALSE
    /\ threads = [t \in Tids |-> NoThread]
    /\ consumer_thread = 0
    /\ cache \in [FetchIds -> {0, 1}]
    /\ rds_rows \in SUBSET FetchIds
    /\ batch \in Requests
    /\ races = <<>>
    /\ executor_queue = <<>>
    /\ response = NoResponse
    /\ warning_count = 0
    /\ last_warning_time = 0
    /\ now = StartTime
    /\ window_start = 0
    /\ prev_count = 0
    /\ escalated = FALSE

NextCheck ==
    \/ check_user_step
    \/ check_user_return
    \/ \E id \in FetchIds : redis_insert(id)

SpecCheck == InitCheck /\ [][NextCheck]_vars

\* ========================================= KafkaCoordinatorWarningHandler
\* (mutant) the count is never cleared, however old the last warning is
counted_never_resets(count, last, t) == count + 1

\* emit, for a record that matches a coordinator keyword, at time t: the
\* count is cleared when the last warning is older than the window, then it
\* is incremented
counted(count, last, t) ==
    (IF t - last > warning_window THEN 0 ELSE count) + 1

\* emit on a matching warning; at the threshold the error counter of the
\* KafkaService is set to its maximum and the count starts again
emit_matching ==
    /\ consumer
    /\ LET c == counted(warning_count, last_warning_time, now)
       IN /\ prev_count' = warning_count
          /\ last_warning_time' = now
          /\ window_start' = IF c = 1 THEN now ELSE window_start
          /\ IF c >= warning_threshold
             THEN /\ consecutive_errors' = max_consecutive_errors
                  /\ warning_count' = 0
                  /\ escalated' = TRUE
             ELSE /\ warning_count' = c
                  /\ UNCHANGED <<consecutive_errors, escalated>>
    /\ UNCHANGED <<handlerVars, cache, consumer, running, failover_triggered,
                   threads, consumer_thread, now>>
    /\ UNCHANGED fetchVars

\* time passes
tick ==
    /\ now < StartTime + MaxTicks * TimeStep
    /\ now' = now + TimeStep
    /\ UNCHANGED <<routerVars, cache, fetchVars, warning_count,
                   last_warning_time, window_start, prev_count, escalated>>

\* the service after a successful startup: connected, the consumer thread
\* started, no warning seen yet
InitMonitor ==
    /\ current_source = LAKE
    /\ switch_timestamp = 0
    /\ clock = 0
    /\ handler = Idle
    /\ pending = {}
    /\ arrived = 0
    /\ finished = 0
    /\ cache \in [Ids -> {0} \cup Vals]
    /\ consumer = TRUE
    /\ running = TRUE
    /\ consecutive_errors = 0
    /\ failover_triggered = FALSE
    /\ threads = [t \in Tids |-> IF t = 1 THEN [NoThread EXCEPT !.pc = "top"]
                                 ELSE NoThread]
    /\ consumer_thread = 1
    /\ rds_rows = {}
    /\ batch = <<>>
    /\ races = <<>>
    /\ executor_queue = <<>>
    /\ response = NoResponse
    /\ warning_count = 0
    /\ last_warning_time = 0
    /\ now = StartTime
    /\ window_start = 0
    /\ prev_count = 0
    /\ escalated = FALSE

NextMonitor ==
    \/ emit_matching
    \/ tick
    \/ \E t \in Tids : consume_top(t)
    \/ \E t \in Tids : consume_message(t)
    \/ \E t \in Tids : consume_write(t)
    \/ \E t \in Tids : consume_timeout(t)
    \/ \E t \in Tids : consume_error(t)
    \/ \E t \in Tids : consume_check(t)

SpecMonitor == InitMonitor /\ [][NextMonitor]_vars

\* the consumer thread is scheduled: whenever it can take a step it does
ConsumerStep ==
    \E t \in Tids :
        \/ consume_top(t)
        \/ consume_message(t)
        \/ consume_write(t)
        \/ consume_timeout(t)
        \/ consume_error(t)
        \/ consume_check(t)

SpecMonitorFair == SpecMonitor /\ WF_vars(ConsumerStep)

\* ------------------------------------------- lifecycle with the warnings
\* a matching warning is logged while few have been counted
emit_some ==
    /\ warning_count < MaxWarnings
    /\ emit_matching

\* the startup, the switch handlers and the consumer thread as in
\* SpecRouter, with a few matching warnings logged at any moment
NextLifecycle ==
    \/ \E op \in {"rds", "lake"} : Arrive(op)
    \/ Begin
    \/ Respond
    \/ switch_to_rds_stop
    \/ switch_to_rds_join
    \/ switch_to_rds_connect
    \/ startup_connect
    \/ switch_to_lake_trino
    \/ initial_sync_scan
    \/ initial_sync_row
    \/ initial_sync_write
    \/ handler_kafka_connect
    \/ handler_kafka_start
    \/ switch_to_lake_switch
    \/ \E t \in Tids : consume_top(t)
    \/ \E t \in Tids : consume_message(t)
    \/ \E t \in Tids : consume_write(t)
    \/ \E t \in Tids : consume_timeout(t)
    \/ \E t \in Tids : consume_error(t)
    \/ \E t \in Tids : consume_check(t)
    \/ emit_some

SpecLifecycle == InitRouter /\ [][NextLifecycle]_vars

\* ================================================================ claims
SwitchDone(op) == handler.op = op /\ handler.pc = "done"

Target(op) == IF op = "rds" THEN RDS ELSE LAKE

\* C2: a switch invoked while its own source is already the active one is
\* answered already_active by DataSourceService (it never answers switched),
\* and the current source and the switch timestamp are what they were
\* before the call, however the call ends.
C2_SwitchIdempotent ==
    \A op \in {"rds", "lake"} :
        (SwitchDone(op) /\ handler.pre.source = Target(op)) =>
            /\ handler.status \in {"already_active", "error_500"}
            /\ current_source = handler.pre.source
            /\ switch_timestamp = handler.pre.ts

\* C2 witness: a second switch to RDS, after an earlier one that switched,
\* has been answered already_active.
C2_Witness ==
    /\ SwitchDone("rds")
    /\ handler.pre.source = RDS
    /\ handler.pre.ts > 0
    /\ handler.status = "already_active"

\* C3: a switch request that came while another switch was in progress is
\* answered with a switch conflict (and so has run none of its sub-steps).
C3_ConflictRejected ==
    (handler.pc = "done" /\ handler.during # 0) =>
        handler.status = "switch_conflict"

\* DataSourceState and the consumer's lifecycle agree
Consistent ==
    \/ current_source = RDS /\ ~running
    \/ current_source = LAKE /\ running

\* C4: when a switch to Lake came while a switch to RDS was in progress and
\* ran right after it, the state in which both have finished is consistent:
\* RDS with the consumer stopped, or Lake with the consumer started.
C4_ConcurrentSwitchConsistent ==
    (/\ SwitchDone("lake")
     /\ handler.during # 0
     /\ handler.during_op = "rds"
     /\ finished = handler.during) => Consistent

\* C5: a switch to Lake, begun in RDS mode, in which a sub-step failed (a
\* connect raised, or the bulk scan failed) is reported as failed and leaves
\* the source RDS and the switch timestamp unchanged.
C5_LakeFailureAborts ==
    (/\ SwitchDone("lake")
     /\ handler.pre.source = RDS
     /\ (handler.status = "error_500" \/ handler.scan_failed)) =>
        /\ handler.status = "error_500"
        /\ current_source = RDS
        /\ switch_timestamp = handler.pre.ts

\* C6: a switch to RDS that fails on the RDS connect leaves the source Lake,
\* the switch timestamp unchanged and the consumer's running flag as it was
\* before the call.
C6_RdsFailureNoPartialSwitch ==
    (/\ SwitchDone("rds")
     /\ handler.status = "error_500"
     /\ handler.pre.source = LAKE) =>
        /\ current_source = LAKE
        /\ switch_timestamp = handler.pre.ts
        /\ running = handler.pre.running

\* initial_sync has returned to its caller without raising
SyncReturnedNormally == handler.pc = "kafka_probe"

\* C7: when initial_sync has returned, every user id of the scanned dataset
\* exists in Redis.
C7_SyncedIdsExist ==
    SyncReturnedNormally =>
        \A k \in 1..Len(handler.users) : cache[handler.users[k].user_id] # 0

\* C8: initial_sync never returns normally after a failed bulk scan.
C8_SyncRaisesOnScanFailure ==
    ~(SyncReturnedNormally /\ handler.scan_failed)

\* ------------------------------------------------------------ race fetch
Range(seq) == {seq[k] : k \in 1..Len(seq)}

Returned(r) == races[r].pc = "returned"

\* the store holds a record for the id now
Holds(st, id) == IF st = "redis" THEN cache[id] # 0 ELSE id \in rds_rows

\* the sub-lookup of store st in this race raised, or was cut off by the
\* fallback timeout
Failed(race, st) ==
    \/ race[st].res = "error"
    \/ race.timed_out /\ race.pending = st

\* C1 as stated: fetch_user_parallel returns a record if Redis or RDS held
\* a record for the id at the time of the call, and only if one of them
\* holds one.
C1_RecordIffHeld ==
    \A r \in Positions :
        Returned(r) =>
            /\ (races[r].held.redis \/ races[r].held.rds) =>
                   races[r].result # "none"
            /\ races[r].result # "none" =>
                   (Holds("redis", races[r].id) \/ Holds("rds", races[r].id))

\* C1 amended: a returned record carries the tag of a store that holds a
\* record for the id (so nothing is returned when neither store has one);
\* and when a store held a record at the time of the call, a record is
\* returned unless that store's lookup raised or was cut off by the
\* two-second fallback timeout.
C1_RecordIffAnswered ==
    \A r \in Positions :
        Returned(r) =>
            /\ races[r].result # "none" => Holds(races[r].result, races[r].id)
            /\ \A st \in Stores :
                 (races[r].held[st] /\ races[r].result = "none") =>
                     Failed(races[r], st)

\* C1 witness: Redis answered absent first and the RDS record came in the
\* fallback wait.
C1_Witness ==
    \E r \in Positions :
        /\ Returned(r)
        /\ ~races[r].held.redis
        /\ races[r].pending = "rds"
        /\ races[r].result = "rds"

FoundIds == {response.users[j].user_id : j \in 1..Len(response.users)}

HeldAtCall(id) ==
    \E r \in Positions : races[r].id = id /\ (races[r].held.redis \/ races[r].held.rds)

HeldNow(id) == Holds("redis", id) \/ Holds("rds", id)

\* C9 as stated: the found records are exactly the requested ids held by at
\* least one store (every id held at the time of the call is found, every
\* found id is held), each tagged with a store that holds it, and not_found
\* is exactly the requested ids held by neither store.
C9_FoundIffHeld ==
    response.sent =>
        /\ {id \in Range(batch) : HeldAtCall(id)} \subseteq FoundIds
        /\ FoundIds \subseteq {id \in Range(batch) : HeldNow(id)}
        /\ {id \in Range(batch) : ~HeldNow(id)} \subseteq Range(response.not_found)
        /\ Range(response.not_found) \subseteq {id \in Range(batch) : ~HeldAtCall(id)}
        /\ \A j \in 1..Len(response.users) :
             Holds(response.users[j].source, response.users[j].user_id)

\* C9 amended: every found record is for a requested id and is tagged with
\* a store that holds it; every requested id held by neither store is in
\* not_found and not among the found; and a requested id is in not_found
\* only if, in one of its races, each store that held it at the time of the
\* call failed its lookup (an error, or the fallback timeout).
C9_FoundIffAnswered ==
    response.sent =>
        /\ \A j \in 1..Len(response.users) :
             /\ response.users[j].user_id \in Range(batch)
             /\ response.users[j].source \in Stores
             /\ Holds(response.users[j].source, response.users[j].user_id)
        /\ \A id \in Range(batch) :
             ~HeldNow(id) =>
                 (id \in Range(response.not_found) /\ id \notin FoundIds)
        /\ \A id \in Range(response.not_found) :
             \E r \in Positions :
                 /\ races[r].id = id
                 /\ races[r].result = "none"
                 /\ \A st \in Stores : races[r].held[st] => Failed(races[r], st)
        /\ Range(batch) = FoundIds \cup Range(response.not_found)

\* C9 witness: one id found in RDS only and tagged rds, another id held by
\* neither store and reported not found.
C9_Witness ==
    /\ response.sent
    /\ \E j \in 1..Len(response.users) :
         /\ response.users[j].source = "rds"
         /\ ~Holds("redis", response.users[j].user_id)
    /\ \E id \in Range(response.not_found) : ~HeldNow(id)

\* C10: every requested id is in exactly one of the found records and
\* not_found, and the two together have as many entries as the request.
C10_ExactlyOneCollection ==
    response.sent =>
        /\ FoundIds \cap Range(response.not_found) = {}
        /\ Range(batch) = FoundIds \cup Range(response.not_found)
        /\ Len(response.users) + Len(response.not_found) = Len(batch)

\* C11: while the active source is Lake, a get-user-data request never lets
\* a lookup reach RDS (no race is even created), every record it collects is
\* tagged 'redis' and is one Redis holds, and its answer covers every
\* requested id.
C11_LakeCacheOnly ==
    current_source = LAKE =>
        /\ RdsQueried = {}
        /\ races = <<>>
        /\ \A j \in 1..Len(response.users) :
             /\ response.users[j].source = "redis"
             /\ Holds("redis", response.users[j].user_id)
        /\ response.sent => LakeDone = Len(batch)

\* a Lake-mode answer with a record from Redis and an id that only RDS holds
C11_Witness ==
    /\ current_source = LAKE
    /\ response.sent
    /\ Len(response.users) >= 1
    /\ \E j \in 1..Len(response.not_found) :
         /\ response.not_found[j] \in rds_rows
         /\ ~Holds("redis", response.not_found[j])

\* thread t, and nothing else, takes a step
StepOf(t) ==
    /\ UNCHANGED handlerVars
    /\ \A u \in Tids \ {t} : threads'[u] = threads[u]

\* in this step thread t takes a message of the given kind from its for
\* loop and runs process_message on it
Processes(t, kind) ==
    /\ StepOf(t)
    /\ threads[t].pc = "inner"
    /\ running
    /\ \E id \in Ids, val \in Vals, redis_ok \in BOOLEAN :
         process_message(t, kind, id, val, redis_ok)

\* C12: processing a tombstone (message.value is None) leaves every Redis
\* entry as it was and does not increment consecutive_errors.
C12_TombstoneNoEffect ==
    [][\A t \in Tids :
          Processes(t, "tombstone") =>
              /\ cache' = cache
              /\ consecutive_errors' <= consecutive_errors]_vars

\* a tombstone was handled while errors were counted and Redis had an entry
C12_Witness ==
    \E t \in Tids :
        /\ threads[t].pc = "inner"
        /\ threads[t].message = "tombstone"
        /\ consecutive_errors > 0
        /\ \E id \in Ids : cache[id] # 0

\* C13: processing a change event whose `after` is null leaves
\* consecutive_errors, running and failover_triggered unchanged.
C13_NullAfterKeepsHealth ==
    [][\A t \in Tids :
          Processes(t, "norecord") =>
              UNCHANGED <<consecutive_errors, running, failover_triggered>>]_vars

\* C17: once consecutive_errors has reached the maximum no thread handles a
\* further message, and a consumer thread is only ever created by the
\* start_consuming call of the startup or of a switch handler.
C17_FatalStopsProcessing ==
    [][\A t \in Tids :
          /\ consecutive_errors >= max_consecutive_errors =>
                 \A kind \in MessageKinds : ~Processes(t, kind)
          /\ (~is_alive(t) /\ threads'[t].pc = "top") =>
                 handler.pc = "kafka_start"]_vars

\* C18: a switch_to_lake call that began when the consumer loop had exited
\* with the running flag still up (the Failed state) and that did not answer
\* 500 ends with a live consumer thread.
C18_LakeSwitchRevivesLoop ==
    (/\ SwitchDone("lake")
     /\ handler.status # "error_500"
     /\ handler.pre.running
     /\ ~handler.pre.alive) => is_alive(consumer_thread)

\* the add_user_data call of thread t fails in this step
FailedWrite(t) ==
    /\ StepOf(t)
    /\ threads[t].pc = "write"
    /\ threads'[t].pc = "inner"
    /\ cache'[threads[t].wid] = 0

\* C19: consecutive_errors grows only in a step of the consumer loop, and
\* goes back to 0 only in connect/start or at the end of a processed
\* message; a message whose Redis write failed, or that carried no record,
\* does not reset it.
C19_ErrorCounterDiscipline ==
    [][/\ consecutive_errors' > consecutive_errors =>
            \E t \in Tids : threads[t].pc = "inner"
       /\ (consecutive_errors > 0 /\ consecutive_errors' = 0) =>
            \/ handler.pc \in {"kafka_probe", "kafka_start"}
            \/ \E t \in Tids :
                 /\ threads[t].pc \in {"inner", "write"}
                 /\ ~FailedWrite(t)
                 /\ ~Processes(t, "norecord")]_vars

\* C20: with a consumer object in place, health_check answers True exactly
\* when running is up, consecutive_errors is below the maximum and the
\* failover flag is down.
C20_HealthCheckFormula ==
    consumer =>
        (kafka_health_check <=>
            (/\ running
             /\ consecutive_errors < max_consecutive_errors
             /\ ~failover_triggered))

\* switch_to_lake is about to ask health_check while the loop has failed
C20_Witness ==
    /\ AtPc("lake", "kafka_probe")
    /\ consumer
    /\ running
    /\ consecutive_errors >= max_consecutive_errors
    /\ ~kafka_health_check

\* a matching warning is handled by emit in this step
EmitStep ==
    \/ warning_count' # warning_count
    \/ last_warning_time' # last_warning_time

\* emit has just reached the threshold with ten warnings that all lie
\* within one window after the first of them
TrippedInWindow ==
    /\ escalated
    /\ warning_count = 0
    /\ prev_count = warning_threshold - 1
    /\ last_warning_time - window_start <= warning_window

\* C14: once ten matching warnings within the window have tripped the
\* threshold, the monitor reaches the Failed state (the consumer loop has
\* exited and health_check is False), however the handler and the loop
\* interleave.
C14_EscalationForcesFailed ==
    TrippedInWindow ~> (~is_alive(consumer_thread) /\ ~kafka_health_check)

\* C15: a matching warning that arrives later than window_start + 30 s,
\* window_start being the time of the first warning counted in the current
\* window, clears the count before it is counted (the count becomes 1); so
\* every counted warning lies within 30 s of the first one of its window.
C15_WindowFromFirstWarning ==
    [][(EmitStep /\ warning_count >= 1
          /\ now > window_start + warning_window) =>
            warning_count' = 1]_vars

\* C16: a matching warning more than 30 s after the previous matching one
\* sets the count to 1, whatever the count was.
C16_GapResetsToOne ==
    [][(EmitStep /\ now - last_warning_time > warning_window) =>
            warning_count' = 1]_vars

\* a count of several warnings has just been discarded after a long gap
C16_Witness ==
    /\ warning_count = 1
    /\ prev_count >= 2
    /\ last_warning_time = now

\* kafka_service.connect() succeeds in this step of the startup or of
\* switch_to_lake
ConnectStep ==
    /\ handler.pc = "kafka_probe"
    /\ handler'.pc = "kafka_start"
    /\ ~(handler.op = "lake" /\ kafka_health_check)

\* C21: every successful connect() leaves consecutive_errors = 0, the
\* failover flag down and the warning count 0 with no last warning time.
C21_ConnectResetsHealthAndWindow ==
    [][ConnectStep =>
          /\ consecutive_errors' = 0
          /\ failover_triggered' = FALSE
          /\ warning_count' = 0
          /\ last_warning_time' = 0]_vars

\* C22: at most one consumer thread is alive at any time.
C22_SingleWorker ==
    Cardinality({t \in Tids : is_alive(t)}) <= 1

\* C23: stop_consuming() always goes through (neither its first part nor the
\* bounded join can block or raise), and when it has returned the running
\* flag is down, also when the thread is still alive.
C23_StopReturnsStopped ==
    /\ AtPc("rds", "stop") => ENABLED switch_to_rds_stop
    /\ AtPc("rds", "join") => ENABLED switch_to_rds_join
    /\ AtPc("rds", "rds_probe") => ~running

\* stop_consuming() has returned after its join timed out
C23_Witness ==
    /\ AtPc("rds", "rds_probe")
    /\ handler.pre.running
    /\ is_alive(consumer_thread)
    /\ ~running

\* C24: no step removes a Redis entry.
C24_CacheNeverShrinks ==
    [][\A id \in Ids : cache[id] # 0 => cache'[id] # 0]_vars

\* an entry is still there after a tombstone was consumed and a sync of
\* switch_to_lake has run over it
C24_Witness ==
    /\ \E id \in Ids : cache[id] # 0
    /\ \E t \in Tids : threads[t].message = "tombstone"
    /\ AtPc("lake", "ds_switch")
    /\ ~handler.scan_failed

\* C25: no step changes the fields of a record that Redis already holds.
C25_StoredRecordNeverOverwritten ==
    [][\A id \in Ids : cache[id] # 0 => cache'[id] = cache[id]]_vars

\* C26: never more races inside the semaphore than it has slots, never more
\* sub-lookup calls on executor threads than the pool has threads; a race
\* kept out by the semaphore has not failed (it has no result and has not
\* returned), it enters as soon as a slot is free, and no race returns
\* without having entered.
C26_CapsHoldAndQueue ==
    /\ Cardinality(InFlight) <= MaxWorkers
    /\ Cardinality(Busy) <= MaxWorkers
    /\ \A r \in Positions :
         /\ races[r].pc = "new" =>
               /\ races[r].result = "none"
               /\ Cardinality(InFlight) < MaxWorkers => ENABLED fetch_enter(r)
         /\ Returned(r) => races[r].redis.st # "none"

\* the semaphore and the pool are both full while a further race waits
C26_Witness ==
    /\ Cardinality(InFlight) = MaxWorkers
    /\ Cardinality(Busy) = MaxWorkers
    /\ \E r \in Positions : races[r].pc = "new"

\* C27: a request answered 400 for a malformed id has made no store lookup:
\* no result or record was collected and no race was created.
C27_MalformedRejectedBeforeLookup ==
    handler.status = "error_400" =>
        /\ response.users = <<>>
        /\ response.not_found = <<>>
        /\ races = <<>>

\* C28: the check-user answer has one result per requested id, in the order
\* of the request, and every result collected says exists exactly when the
\* user_exists call found the id in Redis at that moment (the call answers
\* False when Redis raises).
C28_OneResultPerIdInOrder ==
    handler.op = "check_user" =>
        /\ response.sent => Len(response.users) = Len(batch)
        /\ \A j \in 1..Len(response.users) :
             /\ response.users[j].user_id = batch[j]
             /\ response.users[j].exists <=>
                   (response.users[j].held /\ response.users[j].answered)

\* an answer for two ids, the second one stored in Redis only after the
\* first was looked up
C28_Witness ==
    /\ handler.op = "check_user"
    /\ response.sent
    /\ Len(response.users) = 2
    /\ ~response.users[1].exists
    /\ response.users[2].exists
    /\ response.users[1].user_id = response.users[2].user_id

\* the sub-lookups of a race that are done with a record
Present(race) == {st \in DoneOf(race) : race[st].res = "present"}

\* C29: when fetch_user_parallel resumes from the wait and a completed
\* sub-lookup has a record, it returns in that step with the record tagged
\* with the store that answered, and a sub-lookup not yet done is cancelled
\* without a result; afterwards the returned result never changes and a
\* cancelled sub-lookup never gets a result, also when its call ends later.
C29_FirstPresentWins ==
    [][\A r \in Positions :
         /\ (races[r].pc = "wait_first" /\ races'[r].pc # "wait_first"
                /\ Present(races[r]) # {}) =>
               /\ races'[r].pc = "returned"
               /\ races'[r].result \in Present(races[r])
               /\ \A st \in Stores \ DoneOf(races[r]) :
                    /\ races'[r][st].st \in {"cancelled", "zombie"}
                    /\ races'[r][st].res = "none"
         /\ Returned(r) =>
               /\ races'[r].pc = "returned"
               /\ races'[r].result = races[r].result
               /\ \A st \in Stores :
                    races[r][st].st \in {"cancelled", "zombie"} =>
                       /\ races'[r][st].st \in {"cancelled", "zombie"}
                       /\ races'[r][st].res = "none"]_vars

\* Redis answered first with the record; the RDS call, which would have
\* found the user too, was cancelled while running and has ended since
C29_Witness ==
    \E r \in Positions :
       /\ Returned(r)
       /\ races[r].result = "redis"
       /\ races[r].redis.st = "done"
       /\ races[r].rds.st = "cancelled"
       /\ races[r].held.rds
       /\ Cardinality(Busy) = 0

\* C30: fetch_user_parallel awaits the remaining sub-lookup only when no
\* completed one has a record; while it waits, the remaining result or the
\* timeout can always end the wait; the race then returns the remaining
\* sub-lookup's record tagged with its store if it completed with one, and
\* not-found if it completed without one or the wait timed out, in which
\* case the remaining sub-lookup is cancelled.
C30_FallbackToRemaining ==
    /\ [](\A r \in Positions :
            races[r].pc = "fallback" =>
               \/ ENABLED fetch_fallback_result(r)
               \/ ENABLED fetch_fallback_timeout(r))
    /\ [][\A r \in Positions :
            /\ (races[r].pc = "wait_first" /\ races'[r].pc # "wait_first"
                   /\ Present(races[r]) = {}) =>
                  /\ races'[r].result = "none"
                  /\ IF DoneOf(races[r]) = Stores
                     THEN races'[r].pc = "returned"
                     ELSE /\ races'[r].pc = "fallback"
                          /\ races'[r].pending \notin DoneOf(races[r])
            /\ (races[r].pc = "fallback" /\ races'[r].pc # "fallback") =>
                  LET p == races[r].pending
                  IN /\ races'[r].pc = "returned"
                     /\ IF races[r][p].st = "done"
                        THEN /\ races'[r].result =
                                  (IF races[r][p].res = "present" THEN p
                                   ELSE "none")
                             /\ ~races'[r].timed_out
                        ELSE /\ races'[r].result = "none"
                             /\ races'[r].timed_out
                             /\ races'[r][p].st \in {"cancelled", "zombie"}]_vars

\* Redis answered first without a record and the RDS call, which would have
\* found the user, did not end in time: not found, the call still running
C30_Witness ==
    \E r \in Positions :
       /\ Returned(r)
       /\ races[r].timed_out
       /\ races[r].result = "none"
       /\ races[r].pending = "rds"
       /\ races[r].redis.res = "absent"
       /\ races[r].rds.st = "zombie"
       /\ races[r].held.rds

\* C31: when fetch_user_parallel resumes from the wait with both sub-lookups
\* done and both holding a record, the race returns the Redis record.
C31_RedisPreferredWhenBothDone ==
    [][\A r \in Positions :
         (races[r].pc = "wait_first" /\ races'[r].pc # "wait_first"
            /\ Present(races[r]) = Stores) =>
               races'[r].result = "redis"]_vars

\* the positions of a request of one race more than the cap
CapPositions == 1..(MaxWorkers + 1)

\* C32: in RDS mode, with Redis answering and RDS calls that may never
\* end, the Redis lookup of every race for an id held in Redis is
\* eventually taken up by an executor thread or the race has returned:
\* cancelled RDS calls of earlier races do not keep it waiting for ever.
C32_CacheLookupEventuallyRuns ==
    \A r \in CapPositions :
       (r \in Positions /\ races[r].held.redis /\ races[r].pc = "wait_first")
          ~> (races[r].redis.st # "queued" \/ Returned(r))

\* C33: when every store call ends, every race of a request with more
\* races than the semaphore and the pool admit at once returns, and the
\* request is answered.
C33_EveryFetchReturns ==
    /\ \A r \in CapPositions : <>(r \in Positions /\ Returned(r))
    /\ <>response.sent

\* a request of three races over a cap of two, answered
C33_Witness ==
    /\ response.sent
    /\ Len(races) > MaxWorkers
    /\ \A r \in Positions : Returned(r)

\* in this step thread t, the only thread inside the for loop, takes a
\* message whose processing raises
RaisingMessage(t) ==
    /\ StepOf(t)
    /\ threads[t].pc = "inner"
    /\ running
    /\ \A u \in Tids \ {t} : threads[u].pc # "inner"
    /\ threads'[t].message = "bad"
    /\ vars' # vars

\* C34: a message whose processing raises adds exactly 1 to
\* consecutive_errors and nothing to Redis, the thread stays in its for loop
\* holding nothing of that message to write, and a consumer thread ends
\* only when the running flag is down or the counter has reached the
\* maximum.
C34_ProcessingErrorCountsOnce ==
    [][\A t \in Tids :
          /\ RaisingMessage(t) =>
                /\ consecutive_errors' = consecutive_errors + 1
                /\ cache' = cache
                /\ threads'[t].pc = "inner"
                /\ threads'[t].wid = 0
                /\ running' = running
          /\ (is_alive(t) /\ threads'[t].pc = "dead") =>
                \/ ~running
                \/ consecutive_errors >= max_consecutive_errors]_vars

\* a thread back at the top of its loop after a message that raised, the
\* counter at 1
C34_Witness ==
    \E t \in Tids :
        /\ threads[t].pc = "inner"
        /\ threads[t].message = "bad"
        /\ consecutive_errors = 1
        /\ running

\* C35: wherever a consumer thread stands in its for loop, ending the
\* iteration there adds 1 to consecutive_errors only if no message was
\* received, the count of iterations without a message has reached
\* max_no_message_iterations and consecutive_errors was above 0 already,
\* and adds nothing otherwise; and a step that counts one more iteration
\* without a message leaves a counter of 0 at 0.
C35_IdleEscalationNeedsErrors ==
    /\ [](\A t \in Tids :
            threads[t].pc = "inner" =>
               LET a == after_loop(threads[t], consecutive_errors)
               IN /\ a.errors \in {consecutive_errors, consecutive_errors + 1}
                  /\ a.errors = consecutive_errors + 1 <=>
                        /\ ~threads[t].messages_received
                        /\ threads[t].no_message_count + 1
                              >= max_no_message_iterations
                        /\ consecutive_errors > 0)
    /\ [][\A t \in Tids :
            (StepOf(t) /\ threads[t].pc = "inner"
               /\ threads'[t].no_message_count > threads[t].no_message_count) =>
                  /\ threads'[t].pc = "check"
                  /\ consecutive_errors' =
                        IF threads'[t].no_message_count
                              >= max_no_message_iterations
                           /\ consecutive_errors > 0
                        THEN consecutive_errors + 1
                        ELSE consecutive_errors]_vars

\* the idle threshold reached with no error counted: nothing was added
C35_Witness ==
    \E t \in Tids :
        /\ threads[t].pc = "check"
        /\ ~threads[t].messages_received
        /\ threads[t].no_message_count = max_no_message_iterations
        /\ consecutive_errors = 0
        /\ running

\* C36: the current source becomes Lake only in the last step of a
\* switch_to_lake call, whose initial_sync has scanned Trino without a
\* failure and returned, with the Kafka consumer connected and started.
C36_LakeOnlyAfterSyncAndStart ==
    [][(current_source # LAKE /\ current_source' = LAKE) =>
          /\ AtPc("lake", "ds_switch")
          /\ ~handler.scan_failed
          /\ consumer
          /\ running]_vars

\* initial_sync is executing
SyncRunning == handler.pc \in {"sync_scan", "sync_row", "sync_write"}

\* C37: initial_sync never executes while a consumer thread is alive.
C37_SyncWithoutLiveConsumer ==
    SyncRunning => \A t \in Tids : ~is_alive(t)

C39_HealthyImpliesLiveWorker ==
    kafka_health_check => \E t \in Tids : is_alive(t)

\* C40: while RDS is the current source and no switch call is executing,
\* the running flag is down and no step writes to Redis.
C40_FailoverStopsConsumerWrites ==
    [][(current_source = RDS /\ ~SwitchInProgress) =>
          /\ ~running
          /\ cache' = cache]_vars

====
